---------------------------- MODULE Spec2Model ----------------------------
(***************************************************************************)
(* A model of pcm.Analyzer (src/analyzer.go): the streaming PCM decoder    *)
(* that keeps a rolling sum of squares and a peak, and calls ObserveRMS    *)
(* and ObservePeak every ObserveEvery of audio time.                       *)
(*                                                                         *)
(* Go's int64 values are modelled as two's-complement numbers made of      *)
(* eight base-256 limbs, least significant limb first, so that s*s and     *)
(* the rolling sum wrap exactly where the program's arithmetic wraps.      *)
(* The same operators work at any number of limbs; the properties use      *)
(* sixteen limbs for the exact (unwrapped) values they compare with.       *)
(***************************************************************************)
EXTENDS Integers, Sequences, FiniteSets, TLC

(***************************************************************************)
(* Fixed-width two's-complement arithmetic on limb sequences               *)
(***************************************************************************)

\* Number of base-256 limbs of a Go int64.
Limbs64 == 8

\* Number of limbs of the exact reference values used by the properties.
LimbsExact == 2 * Limbs64

Pow2(k) == IF k = 0 THEN 1 ELSE IF k = 1 THEN 2 ELSE IF k = 2 THEN 4
           ELSE IF k = 3 THEN 8 ELSE IF k = 4 THEN 16 ELSE IF k = 5 THEN 32
           ELSE IF k = 6 THEN 64 ELSE 128

\* The n-limb representation of a small integer v (|v| < 2^31).
RECURSIVE NatLimbs(_, _)
NatLimbs(v, n) == IF n = 0 THEN <<>> ELSE <<v % 256>> \o NatLimbs(v \div 256, n - 1)

Zero(n) == [i \in 1..n |-> 0]

IsNeg(x) == x[Len(x)] >= 128

\* x + y, wrapping at the width of x.
RECURSIVE AddFrom(_, _, _, _)
AddFrom(x, y, i, carry) ==
    IF i > Len(x) THEN <<>>
    ELSE LET t == x[i] + y[i] + carry
         IN  <<t % 256>> \o AddFrom(x, y, i + 1, t \div 256)

Add(x, y) == AddFrom(x, y, 1, 0)

Not(x) == [i \in 1..Len(x) |-> 255 - x[i]]

\* -x, wrapping at the width of x.
Neg(x) == Add(Not(x), NatLimbs(1, Len(x)))

\* x - y, wrapping at the width of x.
Sub(x, y) == Add(x, Neg(y))

FromInt(v, n) == IF v >= 0 THEN NatLimbs(v, n) ELSE Neg(NatLimbs(-v, n))

\* x * y, wrapping at the width of x: column k of the long multiplication
\* is the sum of x[i] * y[k + 1 - i] over i in 1..k.
RECURSIVE Column(_, _, _, _)
Column(x, y, k, i) ==
    IF i > k THEN 0 ELSE x[i] * y[k + 1 - i] + Column(x, y, k, i + 1)

RECURSIVE MulFrom(_, _, _, _)
MulFrom(x, y, k, carry) ==
    IF k > Len(x) THEN <<>>
    ELSE LET t == Column(x, y, k, 1) + carry
         IN  <<t % 256>> \o MulFrom(x, y, k + 1, t \div 256)

Mul(x, y) == MulFrom(x, y, 1, 0)

\* Signed x < y.
RECURSIVE LessFrom(_, _, _)
LessFrom(x, y, i) ==
    IF i = 0 THEN FALSE
    ELSE IF x[i] # y[i] THEN x[i] < y[i]
    ELSE LessFrom(x, y, i - 1)

Less(x, y) ==
    IF IsNeg(x) # IsNeg(y) THEN IsNeg(x) ELSE LessFrom(x, y, Len(x))

\* x widened to n limbs, keeping its value.
SignExtend(x, n) ==
    [i \in 1..n |-> IF i <= Len(x) THEN x[i] ELSE IF IsNeg(x) THEN 255 ELSE 0]

\* Bitwise operations on one limb, bit by bit.
RECURSIVE LimbOr(_, _, _)
LimbOr(u, v, bits) ==
    IF u = 0 THEN v ELSE IF v = 0 THEN u ELSE IF bits = 0 THEN 0
    ELSE (IF u % 2 = 1 \/ v % 2 = 1 THEN 1 ELSE 0)
         + 2 * LimbOr(u \div 2, v \div 2, bits - 1)

RECURSIVE LimbXor(_, _, _)
LimbXor(u, v, bits) ==
    IF u = 0 THEN v ELSE IF v = 0 THEN u ELSE IF bits = 0 THEN 0
    ELSE (IF (u % 2) # (v % 2) THEN 1 ELSE 0)
         + 2 * LimbXor(u \div 2, v \div 2, bits - 1)

Or(x, y) == [i \in 1..Len(x) |-> LimbOr(x[i], y[i], 8)]

Xor(x, y) == [i \in 1..Len(x) |-> LimbXor(x[i], y[i], 8)]

\* 1 << k, for 0 <= k < 8 * n.
Bit(k, n) == [i \in 1..n |-> IF i = (k \div 8) + 1 THEN Pow2(k % 8) ELSE 0]

\* x & (1 << k) != 0.
TestBit(x, k) == (x[(k \div 8) + 1] \div Pow2(k % 8)) % 2 = 1

\* x << k for k a multiple of 8 (the only shifts the decoder makes), wrapping.
ShiftLeft(x, k) ==
    [i \in 1..Len(x) |-> IF i - (k \div 8) >= 1 THEN x[i - (k \div 8)] ELSE 0]


(***************************************************************************)
(* The Analyzer and the bounds of the model                                *)
(***************************************************************************)

\* time.Second in the model's unit of time.  Durations are counted in
\* ticks of half a second: for durations that are whole ticks the quotient
\* SampleRate*d/time.Second is the same in ticks and in nanoseconds.
Second == 2

\* A Write is given at most MaxChunk bytes, and the Writes of one run at
\* most MaxStream bytes in total.
MaxChunk == 2
MaxStream == 5

\* The byte values a chunk is made of: a small positive value and one with
\* the top bit set.
ByteValues == {1, 128}

Chunks == UNION {[1..k -> ByteValues] : k \in 0..MaxChunk}

\* The exported fields a run starts with.  ObserveRMS and ObservePeak are
\* TRUE when the field holds a func and FALSE when it is nil.  Durations
\* are in ticks, up to one second.
MaxRate == 3

\* Runs that vary what the decoder reads: word size, channels, byte order
\* and signedness, with a report every frame (two frames per interval),
\* once with Window = ObserveEvery and once with a shorter Window.
DecodingFields ==
    [SampleRate : {2}, WordSize : {8, 16}, Channels : {1, 2},
     LittleEndian : BOOLEAN, Signed : BOOLEAN,
     Window : {1, 2}, ObserveEvery : {2},
     ObserveRMS : {TRUE}, ObservePeak : {TRUE}]

\* Runs that vary when reports are due and over which window: every sample
\* rate, interval and Window (negative and zero included) and every choice
\* of observers, on one channel of unsigned bytes.
ScheduleFields ==
    [SampleRate : 1..MaxRate, WordSize : {8}, Channels : {1},
     LittleEndian : {TRUE}, Signed : {FALSE},
     Window : -1..Second, ObserveEvery : 1..Second,
     ObserveRMS : BOOLEAN, ObservePeak : BOOLEAN]

\* Runs whose fields line 234 rejects, one fault at a time.
GoodFields ==
    [SampleRate |-> 2, WordSize |-> 8, Channels |-> 1, LittleEndian |-> TRUE,
     Signed |-> TRUE, Window |-> 2, ObserveEvery |-> 2,
     ObserveRMS |-> TRUE, ObservePeak |-> TRUE]

BadFields ==
    {[GoodFields EXCEPT !.Channels = v] : v \in {-1, 0}}
    \cup {[GoodFields EXCEPT !.WordSize = v] : v \in {0, 4, 12, 64, 72}}
    \cup {[GoodFields EXCEPT !.SampleRate = v] : v \in {-1, 0}}
    \cup {[GoodFields EXCEPT !.ObserveEvery = v] : v \in {-1, 0}}
    \cup {[GoodFields EXCEPT !.SampleRate = 1, !.ObserveEvery = 1]}

Fields == DecodingFields \cup ScheduleFields \cup BadFields

\* Runs on 40-bit words, whose squares do not fit in an int64.
WideFields ==
    [SampleRate : {2}, WordSize : {40}, Channels : {1},
     LittleEndian : BOOLEAN, Signed : BOOLEAN,
     Window : {1, 2}, ObserveEvery : {2},
     ObserveRMS : {TRUE}, ObservePeak : {TRUE}]

Int64(v) == FromInt(v, Limbs64)

\* The nil slice, and make([]int64, 0, n).
NilSlice == [nil |-> TRUE, cap |-> 0, elems |-> <<>>]
MakeSlice(n) == [nil |-> FALSE, cap |-> n, elems |-> <<>>]

\* An Analyzer literal with the exported fields set: Go zeroes the rest.
NewAnalyzer(f) ==
    [SampleRate |-> f.SampleRate, WordSize |-> f.WordSize,
     Channels |-> f.Channels, LittleEndian |-> f.LittleEndian,
     Signed |-> f.Signed, Window |-> f.Window,
     ObserveEvery |-> f.ObserveEvery,
     ObserveRMS |-> f.ObserveRMS, ObservePeak |-> f.ObservePeak,
     pending |-> <<>>, squares |-> NilSlice, nwindow |-> 0,
     sum |-> Int64(0), next |-> 0, countdown |-> 0, nobserve |-> 0,
     peak |-> Int64(0), wordMax |-> Int64(0)]

(***************************************************************************)
(* Write, step by step.  A step takes the record m of everything a run     *)
(* holds (the Analyzer a, the position pc inside Write, Write's locals p,  *)
(* n and c, the last return value ret, the observer calls made so far)     *)
(* plus the bookkeeping the properties read (frames, samples, words,       *)
(* lastReport, stream), and gives the record after the step.               *)
(***************************************************************************)

\* Go's integer division truncates toward zero.
Quot(x, y) == IF x >= 0 THEN x \div y ELSE -((-x) \div y)

\* SampleRate*ObserveEvery/time.Second: frames per ObserveEvery interval.
FramesPerInterval(a) == Quot(a.SampleRate * a.ObserveEvery, Second)

\* Line 234 without its last test.
BadParametersNoInterval(a) ==
    \/ a.Channels < 1
    \/ a.WordSize = 0
    \/ a.WordSize % 8 # 0
    \/ a.WordSize >= 64
    \/ a.SampleRate < 1

\* The condition of line 234.
BadParameters(a) ==
    \/ a.Channels < 1
    \/ a.WordSize = 0
    \/ a.WordSize % 8 # 0
    \/ a.WordSize >= 64
    \/ a.SampleRate < 1
    \/ FramesPerInterval(a) < 1

WindowSamples(a) == Quot(a.Channels * a.SampleRate * a.Window, Second)

\* Line 243 one frame shorter still.
ReportPeriodShort(a) == FramesPerInterval(a) - 2

\* Line 243.
ReportPeriod(a) == FramesPerInterval(a) - 1

WordMax(a) == Bit(a.WordSize - 1, Limbs64)

\* Lines 237-244, after a.nwindow has been set and make has not panicked.
Derive(a) ==
    [a EXCEPT
        !.squares = IF a.Window # a.ObserveEvery THEN MakeSlice(a.nwindow) ELSE @,
        !.next = -1,
        !.wordMax = WordMax(a),
        !.nobserve = ReportPeriod(a),
        !.countdown = ReportPeriod(a)]

\* make([]int64, 0, n) panics when n is negative.
MakePanics(a) == a.Window # a.ObserveEvery /\ a.nwindow < 0

\* Lines 254-256 forgetting the pending bytes.
PrependNothing(pending, chunk) == chunk

\* Lines 254-256.
Prepend(pending, chunk) == IF Len(pending) > 0 THEN pending \o chunk ELSE chunk

FrameBytes(a) == (a.Channels * a.WordSize) \div 8

\* Line 257 with > for >=, as in the earlier versions of Write.
FrameReadyStrict(p, a) == Len(p) > FrameBytes(a)

\* The loop condition of line 257.
FrameReady(p, a) == Len(p) >= FrameBytes(a)

\* Where a run is after the loop test of line 257 and the test c < Channels.
AtLoopHead(m) ==
    IF FrameReady(m.p, m.a)
    THEN [m EXCEPT !.c = 0, !.pc = IF 0 < m.a.Channels THEN "word" ELSE "count"]
    ELSE [m EXCEPT !.pc = "return"]

NoError == "nil"

\* The value of ret before the first Write and while a Write is running.
NotReturned == [n |-> 0, err |-> "none"]
ErrBadParameters == "bad Analyzer parameters"

\* Lines 232-256: the call, validation and derivation on first use, and
\* the bytes to decode.
WriteCallOp(m, chunk) ==
    IF m.a.nwindow = 0 /\ BadParameters(m.a)
    THEN [m EXCEPT !.ret = [n |-> 0, err |-> ErrBadParameters]]
    ELSE LET a0 == IF m.a.nwindow = 0
                   THEN [m.a EXCEPT !.nwindow = WindowSamples(m.a)]
                   ELSE m.a
             fresh == m.a.nwindow = 0
         IN  IF fresh /\ MakePanics(a0)
             THEN [m EXCEPT !.a = a0, !.pc = "panic", !.ret = NotReturned,
                            !.stream = @ \o chunk]
             ELSE AtLoopHead(
                    [m EXCEPT !.a = IF fresh THEN Derive(a0) ELSE a0,
                              !.ret = NotReturned,
                              !.n = Len(chunk),
                              !.p = Prepend(m.a.pending, chunk),
                              !.stream = @ \o chunk])

\* Lines 259-263: the bytes of one word, assembled into s.  The result is
\* the value, the bytes left, and whether p[0] was read past the end.
RECURSIVE Assemble(_, _, _, _)
Assemble(s, p, b, a) ==
    IF b >= a.WordSize THEN [s |-> s, p |-> p, panic |-> FALSE]
    ELSE IF Len(p) = 0 THEN [s |-> s, p |-> p, panic |-> TRUE]
    ELSE LET bigshift == IF a.LittleEndian THEN 0 ELSE 1
             littleshift == IF a.LittleEndian THEN 1 ELSE 0
         IN  Assemble(Or(ShiftLeft(s, bigshift * 8),
                         ShiftLeft(Int64(p[1]), littleshift * b)),
                      Tail(p), b + 8, a)

\* Lines 264-270.
SignConvert(s, a) ==
    IF a.Signed
    THEN IF TestBit(s, a.WordSize - 1)
         THEN Add(Xor(s, Sub(Bit(a.WordSize, Limbs64), Int64(1))), Int64(1))
         ELSE s
    ELSE Sub(s, Bit(a.WordSize - 1, Limbs64))

\* Lines 275-279: the cursor and the slice after the cursor has advanced.
Advance(a) ==
    IF a.next + 1 = a.squares.cap
    THEN [a EXCEPT !.next = 0]
    ELSE IF a.next + 1 = Len(a.squares.elems)
    THEN [a EXCEPT !.next = @ + 1,
                   !.squares.elems = Append(@, Int64(0))]
    ELSE [a EXCEPT !.next = @ + 1]

\* squares[next] is out of range.
IndexPanics(a) == a.next < 0 \/ a.next >= Len(a.squares.elems)

\* Lines 280-281.
Replace(a, square) ==
    [a EXCEPT !.sum = Sub(@, a.squares.elems[a.next + 1]),
              !.squares.elems[a.next + 1] = square]

\* Lines 284-288 without the branch for negative samples.
PeakUpdateNoAbs(peak, s) == IF Less(peak, s) THEN s ELSE peak

\* Lines 284-288.
PeakUpdate(peak, s) ==
    IF Less(peak, s) THEN s
    ELSE IF Less(peak, Neg(s)) THEN Neg(s)
    ELSE peak

\* Lines 258-289, one pass of the loop over the channels.
DecodeSampleOp(m) ==
    LET w == Assemble(Int64(0), m.p, 0, m.a)
        s == SignConvert(w.s, m.a)
        square == Mul(s, s)
        a1 == [m.a EXCEPT !.sum = Add(@, square)]
        a2 == IF a1.squares.nil THEN a1 ELSE Advance(a1)
        word == SubSeq(m.p, 1, Len(m.p) - Len(w.p))
    IN  IF w.panic
        THEN [m EXCEPT !.p = w.p, !.pc = "panic"]
        ELSE IF ~a2.squares.nil /\ IndexPanics(a2)
        THEN [m EXCEPT !.a = a2, !.p = w.p, !.pc = "panic"]
        ELSE [m EXCEPT
                !.a = [(IF a2.squares.nil THEN a2 ELSE Replace(a2, square))
                         EXCEPT !.peak = PeakUpdate(@, s)],
                !.p = w.p,
                !.c = @ + 1,
                !.pc = IF m.c + 1 < m.a.Channels THEN "word" ELSE "count",
                !.samples = Append(@, s),
                !.words = Append(@, word)]

\* The test of line 290, on the decremented countdown.
ReportDue(countdown) == countdown = 0

\* Lines 291-294: the divisor of the reported mean.
Divisor(a) == IF a.squares.nil THEN a.nwindow ELSE Len(a.squares.elems)

\* The calls of lines 295-301.  ObserveRMS is given
\* 10*log10(sqrt(float64(sum/n))/wordMax) and ObservePeak
\* 10*log10(float64(peak)/wordMax): a call is recorded with the integers its
\* argument is computed from, and with the number of frames and samples
\* decoded when it was made.
RMSCall(m) ==
    [fn |-> "ObserveRMS", num |-> m.a.sum, den |-> Int64(Divisor(m.a)),
     wordMax |-> m.a.wordMax, frame |-> m.frames + 1, nsamples |-> Len(m.samples)]

PeakCall(m) ==
    [fn |-> "ObservePeak", num |-> m.a.peak, den |-> Int64(1),
     wordMax |-> m.a.wordMax, frame |-> m.frames + 1, nsamples |-> Len(m.samples)]

\* Lines 290-306: the countdown and, when it reaches zero, the report.
CountOp(m) ==
    IF ~ReportDue(m.a.countdown - 1)
    THEN AtLoopHead([m EXCEPT !.a.countdown = @ - 1, !.frames = @ + 1])
    ELSE IF m.a.ObserveRMS /\ Divisor(m.a) = 0
    THEN [m EXCEPT !.a.countdown = @ - 1, !.pc = "panic"]
    ELSE AtLoopHead(
           [m EXCEPT
              !.a = [m.a EXCEPT
                       !.peak = IF m.a.ObservePeak THEN Int64(0) ELSE @,
                       !.sum = IF m.a.squares.nil THEN Int64(0) ELSE @,
                       !.countdown = m.a.nobserve],
              !.observed = @ \o (IF m.a.ObserveRMS THEN <<RMSCall(m)>> ELSE <<>>)
                             \o (IF m.a.ObservePeak THEN <<PeakCall(m)>> ELSE <<>>),
              !.frames = @ + 1,
              !.lastReport = Len(m.samples),
              !.reports = @ + 1])

\* Lines 308-309.
WriteReturnOp(m) ==
    [m EXCEPT !.a.pending = m.p,
              !.ret = [n |-> m.n, err |-> NoError],
              !.p = <<>>, !.n = 0, !.c = 0, !.pc = "idle"]

(***************************************************************************)
(* UseMIMEType.  A string is a sequence of one-character strings.          *)
(***************************************************************************)

UpperCase ==
    <<"A", "B", "C", "D", "E", "F", "G", "H", "I", "J", "K", "L", "M",
      "N", "O", "P", "Q", "R", "S", "T", "U", "V", "W", "X", "Y", "Z">>

LowerCase ==
    <<"a", "b", "c", "d", "e", "f", "g", "h", "i", "j", "k", "l", "m",
      "n", "o", "p", "q", "r", "s", "t", "u", "v", "w", "x", "y", "z">>

Digits == <<"0", "1", "2", "3", "4", "5", "6", "7", "8", "9">>

WhiteSpace == {" ", "\t", "\n", "\r"}

\* The index of ch in seq, or 0.
IndexOf(ch, seq) ==
    IF \E i \in 1..Len(seq) : seq[i] = ch
    THEN CHOOSE i \in 1..Len(seq) : seq[i] = ch
    ELSE 0

\* strings.ToLower.
ToLower(str) ==
    [i \in 1..Len(str) |->
        IF IndexOf(str[i], UpperCase) > 0
        THEN LowerCase[IndexOf(str[i], UpperCase)]
        ELSE str[i]]

\* strings.TrimSpace.
RECURSIVE TrimLeft(_)
TrimLeft(str) ==
    IF str # <<>> /\ Head(str) \in WhiteSpace THEN TrimLeft(Tail(str)) ELSE str

RECURSIVE TrimRight(_)
TrimRight(str) ==
    IF str # <<>> /\ str[Len(str)] \in WhiteSpace
    THEN TrimRight(SubSeq(str, 1, Len(str) - 1))
    ELSE str

TrimSpace(str) == TrimRight(TrimLeft(str))

\* strings.Split on a one-character separator: the pieces between the
\* separators, one piece (the whole string) when there is none.
RECURSIVE SplitFrom(_, _, _)
SplitFrom(str, sep, piece) ==
    IF str = <<>> THEN <<piece>>
    ELSE IF Head(str) = sep THEN <<piece>> \o SplitFrom(Tail(str), sep, <<>>)
    ELSE SplitFrom(Tail(str), sep, Append(piece, Head(str)))

Split(str, sep) == SplitFrom(str, sep, <<>>)

\* strings.HasPrefix.
HasPrefix(str, prefix) ==
    Len(str) >= Len(prefix) /\ SubSeq(str, 1, Len(prefix)) = prefix

\* The value of a string of decimal digits.
RECURSIVE DigitsValue(_, _)
DigitsValue(str, acc) ==
    IF str = <<>> THEN acc
    ELSE DigitsValue(Tail(str), 10 * acc + (IndexOf(Head(str), Digits) - 1))

\* The value strconv.ParseInt(str, 10, 64) returns, its error discarded as
\* in line 214: 0 when str is not an optional sign and decimal digits.
\* (A number outside the int64 range gives the nearest int64; the strings
\* parsed here are short of that.)
ParseInt(str) ==
    LET signed == str # <<>> /\ Head(str) \in {"+", "-"}
        digits == IF signed THEN Tail(str) ELSE str
    IN  IF digits = <<>> \/ \E i \in 1..Len(digits) : IndexOf(digits[i], Digits) = 0
        THEN 0
        ELSE IF signed /\ Head(str) = "-" THEN -DigitsValue(digits, 0)
        ELSE DigitsValue(digits, 0)

AudioL16 == <<"a", "u", "d", "i", "o", "/", "L", "1", "6">>
RateKey == <<"r", "a", "t", "e">>
ChannelsKey == <<"c", "h", "a", "n", "n", "e", "l", "s">>

ErrUnrecognized == "unrecognized MIME type"
ErrInvalid == "invalid"
ErrIncomplete == "incomplete header (need rate and channels)"

\* Lines 193-219: the loop over the pieces of mt from piece i on, with the
\* rate and channels found so far.
RECURSIVE Pieces(_, _, _, _)
Pieces(pieces, i, rate, channels) ==
    IF i > Len(pieces)
    THEN [err |-> NoError, rate |-> rate, channels |-> channels]
    ELSE LET str == TrimSpace(pieces[i])
             kv == Split(ToLower(str), "=")
         IN  IF i = 1
             THEN IF ~HasPrefix(str, AudioL16)
                  THEN [err |-> ErrUnrecognized, rate |-> rate, channels |-> channels]
                  ELSE Pieces(pieces, i + 1, rate, channels)
             ELSE IF Len(kv) # 2
             THEN Pieces(pieces, i + 1, rate, channels)
             ELSE IF kv[1] = RateKey
             THEN IF ParseInt(kv[2]) < 1
                  THEN [err |-> ErrInvalid, rate |-> ParseInt(kv[2]), channels |-> channels]
                  ELSE Pieces(pieces, i + 1, ParseInt(kv[2]), channels)
             ELSE IF kv[1] = ChannelsKey
             THEN IF ParseInt(kv[2]) < 1
                  THEN [err |-> ErrInvalid, rate |-> rate, channels |-> ParseInt(kv[2])]
                  ELSE Pieces(pieces, i + 1, rate, ParseInt(kv[2]))
             ELSE Pieces(pieces, i + 1, rate, channels)

\* The MIME types given to UseMIMEType: well-formed ones, with spaces and
\* capitals, and ones with the type, the rate or the channels wrong or
\* missing.
Str(keyword, digits) == <<";">> \o keyword \o <<"=">> \o digits

MIMETypes ==
    { AudioL16 \o <<";", " ">> \o RateKey \o <<"=", "3", ";", " ">>
               \o ChannelsKey \o <<"=", "2">>,
      AudioL16 \o Str(<<"R", "A", "T", "E">>, <<"3">>)
               \o Str(<<"C", "h", "a", "n", "n", "e", "l", "s">>, <<"2">>)
               \o Str(<<"b", "i", "t", "s">>, <<"8">>),
      AudioL16 \o Str(RateKey, <<"0">>) \o Str(RateKey, <<"+", "3">>)
               \o Str(ChannelsKey, <<"2">>),
      <<>>,
      AudioL16,
      AudioL16 \o Str(RateKey, <<"3">>),
      AudioL16 \o Str(ChannelsKey, <<"2">>),
      AudioL16 \o Str(RateKey, <<"0">>) \o Str(ChannelsKey, <<"2">>),
      AudioL16 \o Str(RateKey, <<"3">>) \o Str(ChannelsKey, <<"-", "2">>),
      AudioL16 \o Str(RateKey, <<"x">>) \o Str(ChannelsKey, <<"2">>),
      AudioL16 \o Str(RateKey, <<"3">>) \o Str(ChannelsKey, <<>>),
      <<"a", "u", "d", "i", "o", "/", "L", "8">>
               \o Str(RateKey, <<"3">>) \o Str(ChannelsKey, <<"2">>),
      <<"A", "U", "D", "I", "O", "/", "L", "1", "6">>
               \o Str(RateKey, <<"3">>) \o Str(ChannelsKey, <<"2">>),
      AudioL16 \o <<"0">> \o Str(RateKey, <<"3">>) \o Str(ChannelsKey, <<"2">>) }

\* The loop of lines 193-219 on a whole MIME type, and what it gives for
\* each of MIMETypes.
ParseMIMEType(mt) == Pieces(Split(mt, ";"), 1, 0, 0)

Parsed == [mt \in MIMETypes |-> ParseMIMEType(mt)]

\* Lines 191-228.
UseMIMETypeOp(m, mt) ==
    LET r == Parsed[mt]
    IN  IF r.err # NoError
        THEN [m EXCEPT !.mime = [mt |-> mt, err |-> r.err]]
        ELSE IF r.rate = 0 \/ r.channels = 0
        THEN [m EXCEPT !.mime = [mt |-> mt, err |-> ErrIncomplete]]
        ELSE [m EXCEPT !.a.SampleRate = r.rate,
                       !.a.Channels = r.channels,
                       !.a.WordSize = 16,
                       !.a.LittleEndian = TRUE,
                       !.a.Signed = TRUE,
                       !.mime = [mt |-> mt, err |-> NoError]]

\* The value of mime before the first UseMIMEType.
NotCalled == [mt |-> <<>>, err |-> "none"]

\* A run before its first Write.
Start(f) ==
    [a |-> NewAnalyzer(f), pc |-> "idle", p |-> <<>>, n |-> 0, c |-> 0,
     ret |-> NotReturned, observed |-> <<>>,
     frames |-> 0, samples |-> <<>>, words |-> <<>>, lastReport |-> 0,
     reports |-> 0, stream |-> <<>>, mime |-> NotCalled]

(***************************************************************************)
(* The state machine                                                       *)
(***************************************************************************)

VARIABLES
    a,          \* the Analyzer
    pc,         \* "idle", or the position inside Write, or "panic"
    p, n, c,    \* Write's locals
    ret,        \* what the last Write returned, once it has returned
    observed,   \* the calls of ObserveRMS and ObservePeak, in order
    frames,     \* frames decoded so far
    samples,    \* the decoded samples s, in order
    words,      \* the bytes each sample was decoded from
    lastReport, \* Len(samples) when the countdown last reached zero
    reports,    \* how many times the countdown reached zero
    stream,     \* the bytes of all chunks accepted, concatenated
    mime        \* the UseMIMEType call made since the last Write, if any:
                \* its argument and its error

vars == <<a, pc, p, n, c, ret, observed, frames, samples, words, lastReport,
          reports, stream, mime>>

Cur ==
    [a |-> a, pc |-> pc, p |-> p, n |-> n, c |-> c, ret |-> ret,
     observed |-> observed, frames |-> frames, samples |-> samples,
     words |-> words, lastReport |-> lastReport, reports |-> reports,
     stream |-> stream, mime |-> mime]

Becomes(m) ==
    /\ a' = m.a /\ pc' = m.pc /\ p' = m.p /\ n' = m.n /\ c' = m.c
    /\ ret' = m.ret /\ observed' = m.observed /\ frames' = m.frames
    /\ samples' = m.samples /\ words' = m.words
    /\ lastReport' = m.lastReport /\ reports' = m.reports
    /\ stream' = m.stream /\ mime' = m.mime

IsRun(m) ==
    /\ a = m.a /\ pc = m.pc /\ p = m.p /\ n = m.n /\ c = m.c
    /\ ret = m.ret /\ observed = m.observed /\ frames = m.frames
    /\ samples = m.samples /\ words = m.words
    /\ lastReport = m.lastReport /\ reports = m.reports
    /\ stream = m.stream /\ mime = m.mime

InitFrom(F) == \E f \in F : IsRun(Start(f))

Init == InitFrom(Fields)

WriteCall ==
    /\ pc = "idle"
    /\ \E chunk \in Chunks :
          /\ Len(stream) + Len(chunk) <= MaxStream
          /\ Becomes([WriteCallOp(Cur, chunk) EXCEPT !.mime = NotCalled])

DecodeSample == pc = "word" /\ Becomes(DecodeSampleOp(Cur))

Count == pc = "count" /\ Becomes(CountOp(Cur))

WriteReturn == pc = "return" /\ Becomes(WriteReturnOp(Cur))

Next == WriteCall \/ DecodeSample \/ Count \/ WriteReturn

Spec == Init /\ [][Next]_vars

\* The same machine on 40-bit words.
InitWide == InitFrom(WideFields)

SpecWide == InitWide /\ [][Next]_vars

\* An Analyzer that UseMIMEType is called on has the fields the MIME type
\* does not give, and any value in the others.
MIMEFields ==
    [SampleRate : {2}, WordSize : {8}, Channels : {1},
     LittleEndian : {FALSE}, Signed : {FALSE},
     Window : {1, 2}, ObserveEvery : {2},
     ObserveRMS : {TRUE}, ObservePeak : {TRUE}]

UseMIMEType ==
    /\ pc = "idle"
    /\ \E mt \in MIMETypes : Becomes(UseMIMETypeOp(Cur, mt))

InitMIME == InitFrom(MIMEFields)

NextMIME == WriteCall \/ DecodeSample \/ Count \/ WriteReturn \/ UseMIMEType

SpecMIME == InitMIME /\ [][NextMIME]_vars


(***************************************************************************)
(* A whole Write as one function, and a whole stream in one Write          *)
(***************************************************************************)

\* The run m, which is inside Write, when that Write has returned or
\* panicked.
RECURSIVE Finish(_)
Finish(m) ==
    IF m.pc = "word" THEN Finish(DecodeSampleOp(m))
    ELSE IF m.pc = "count" THEN Finish(CountOp(m))
    ELSE IF m.pc = "return" THEN WriteReturnOp(m)
    ELSE m

\* The exported fields of an Analyzer.
FieldsOf(x) ==
    [SampleRate |-> x.SampleRate, WordSize |-> x.WordSize,
     Channels |-> x.Channels, LittleEndian |-> x.LittleEndian,
     Signed |-> x.Signed, Window |-> x.Window,
     ObserveEvery |-> x.ObserveEvery,
     ObserveRMS |-> x.ObserveRMS, ObservePeak |-> x.ObservePeak]

\* The run that gives a fresh Analyzer with the same fields all of bytes in
\* a single Write.
OneWrite(x, bytes) == Finish(WriteCallOp(Start(FieldsOf(x)), bytes))

(***************************************************************************)
(* Properties                                                              *)
(***************************************************************************)

\* The configuration passes validation, as the specification states it.
Consistent ==
    /\ a.Channels >= 1
    /\ a.WordSize > 0 /\ a.WordSize % 8 = 0 /\ a.WordSize < 64
    /\ a.SampleRate >= 1
    /\ a.SampleRate * a.ObserveEvery >= Second

\* The mutable state of the Analyzer is as Go zeroed it.
Untouched ==
    /\ a.pending = <<>> /\ a.squares = NilSlice /\ a.nwindow = 0
    /\ a.sum = Int64(0) /\ a.next = 0 /\ a.countdown = 0 /\ a.nobserve = 0
    /\ a.peak = Int64(0) /\ a.wordMax = Int64(0)

\* C1: with a configuration that passes validation, whatever the Window
\* and the observers, no Write returns an error and no Write panics.
C1_WriteNeverFails ==
    (Consistent /\ a.Window >= 0) => pc # "panic" /\ ret.err # ErrBadParameters

\* C2: with an inconsistent configuration every Write returns
\* (0, ErrBadParameters), calls no observer and changes nothing: every step
\* of such a run is a Write that leaves the Analyzer as it was.
C2_BadParametersIsTerminal ==
    [][~Consistent =>
         /\ ret' = [n |-> 0, err |-> ErrBadParameters]
         /\ a' = a /\ observed' = observed /\ pc' = "idle"
         /\ Untouched' /\ frames' = 0 /\ samples' = <<>>]_vars

\* A second Write with an inconsistent configuration is about to be made.
C2_Witness == ~Consistent /\ ret.err = ErrBadParameters /\ pc = "idle"

\* C3: after successful Writes of T bytes in all, the samples decoded are
\* the words of the first T div frameBytes frames of the stream, in order,
\* and pending holds the last T mod frameBytes bytes, fewer than a frame.
C3_FramesAndPending ==
    (pc = "idle" /\ ret.err = NoError) =>
        LET wb == a.WordSize \div 8
            fb == a.Channels * wb
            T == Len(stream)
        IN  /\ Len(a.pending) < fb
            /\ Len(a.pending) = T % fb
            /\ a.pending = SubSeq(stream, T - (T % fb) + 1, T)
            /\ frames = T \div fb
            /\ Len(words) = (T \div fb) * a.Channels
            /\ Len(samples) = Len(words)
            /\ \A i \in 1..Len(words) :
                  words[i] = SubSeq(stream, (i - 1) * wb + 1, i * wb)

\* Two frames of two 8-bit channels are decoded and a byte is pending.
C3_Witness ==
    /\ pc = "idle" /\ ret.err = NoError
    /\ a.Channels = 2 /\ a.WordSize = 8
    /\ Len(words) = 4 /\ Len(a.pending) = 1

\* C4: however the stream is cut into chunks, the run makes the observer
\* calls, and ends in the Analyzer state, of the run that is given the
\* whole stream in one Write; and it panics exactly when that run does.
C4_ChunkingIndependence ==
    (Consistent /\ (pc = "panic" \/ (pc = "idle" /\ ret.err = NoError))) =>
        LET one == OneWrite(a, stream)
        IN  /\ observed = one.observed
            /\ one.pc = pc
            /\ pc = "idle" => a = one.a /\ frames = one.frames

\* A 16-bit stream of four bytes whose last Write was of one byte, so that
\* a word was cut between two Writes, after which a report was made.
C4_Witness ==
    /\ pc = "idle" /\ ret = [n |-> 1, err |-> NoError]
    /\ a.WordSize = 16 /\ a.Channels = 1
    /\ Len(stream) = 4 /\ Len(observed) >= 2


\* The calls made of one observer, in order.
CallsOf(fn) == SelectSeq(observed, LAMBDA e : e.fn = fn)

Observers == {"ObserveRMS", "ObservePeak"}

Configured(fn) == IF fn = "ObserveRMS" THEN a.ObserveRMS ELSE a.ObservePeak

\* SampleRate*ObserveEvery/1s, for a configuration that passes validation.
IntervalFrames == (a.SampleRate * a.ObserveEvery) \div Second

\* C5: the k-th call of an observer is made when k*SampleRate*ObserveEvery/1s
\* frames have been decoded: the first after one interval of audio, and
\* each later one an interval after the one before.
C5_ReportEveryInterval ==
    Consistent =>
        \A fn \in Observers :
            \A k \in 1..Len(CallsOf(fn)) :
                CallsOf(fn)[k].frame = k * IntervalFrames

\* C6: with reportPeriodSamples = SampleRate*ObserveEvery/1s - 1, after F
\* frames every configured observer has been called once for each completed
\* period of reportPeriodSamples frames, the k-th call inside the Write that
\* decodes frame k*reportPeriodSamples, after that frame's samples.
C6_OneReportPerPeriod ==
    (Consistent /\ pc # "panic" /\ frames >= 1) =>
        \A fn \in Observers :
            LET calls == CallsOf(fn)
                period == IntervalFrames - 1
            IN  IF Configured(fn)
                THEN /\ Len(calls) * period <= frames
                     /\ frames < (Len(calls) + 1) * period
                     /\ \A k \in 1..Len(calls) :
                           /\ calls[k].frame = k * period
                           /\ calls[k].nsamples = k * period * a.Channels
                ELSE calls = <<>>

\* C7: while fewer than reportPeriodSamples frames (so also while fewer than
\* reportPeriodSamples samples) have been decoded, no observer has been
\* called, at the end of the input as anywhere else.
C7_NoPartialReport ==
    (Consistent /\ frames < IntervalFrames - 1) => observed = <<>>

\* A Write has returned, with both observers configured, after a frame
\* was decoded and before the first report was due.
C7_Witness ==
    /\ Consistent /\ pc = "idle" /\ ret.err = NoError
    /\ a.ObserveRMS /\ a.ObservePeak
    /\ frames >= 1 /\ frames < IntervalFrames - 1

\* Exact values: a sample or the sum widened to LimbsExact limbs, where
\* the squares of the samples and their sums do not wrap.
Exact(x) == SignExtend(x, LimbsExact)

RECURSIVE SumOfSquares(_)
SumOfSquares(ss) ==
    IF ss = <<>> THEN Zero(LimbsExact)
    ELSE Add(Mul(Exact(Head(ss)), Exact(Head(ss))), SumOfSquares(Tail(ss)))

\* |s| and the largest |s| of a sequence of samples; |s| fits an int64.
Abs(s) == IF IsNeg(s) THEN Neg(s) ELSE s

RECURSIVE MaxAbs(_)
MaxAbs(ss) ==
    IF ss = <<>> THEN Int64(0)
    ELSE LET rest == MaxAbs(Tail(ss))
         IN  IF Less(rest, Abs(Head(ss))) THEN Abs(Head(ss)) ELSE rest

\* The last k samples decoded.
Latest(k) == SubSeq(samples, Len(samples) - k + 1, Len(samples))

Min(x, y) == IF x <= y THEN x ELSE y

\* C8: with a circular buffer (Window # ObserveEvery), after every sample
\* the sum is the sum of the squares of the latest
\* min(samplesSeen, windowSamples) samples.
C8_SlidingWindowSum ==
    (Consistent /\ a.Window # a.ObserveEvery /\ pc # "panic") =>
        Exact(a.sum)
            = SumOfSquares(Latest(Min(Len(samples), (a.Channels * a.SampleRate * a.Window) \div Second)))

\* C9: the divisor of every RMS report is windowSamples with a circular
\* buffer, and otherwise the number of samples added to the sum since it
\* was last zeroed.
C9_DivisorIsWindowSize ==
    Consistent =>
        LET calls == CallsOf("ObserveRMS")
        IN  \A k \in 1..Len(calls) :
                calls[k].den =
                    Int64(IF a.Window # a.ObserveEvery
                          THEN (a.Channels * a.SampleRate * a.Window) \div Second
                          ELSE calls[k].nsamples
                                 - (IF k = 1 THEN 0 ELSE calls[k - 1].nsamples))

\* Every ObservePeak call was given the largest |s| of the samples decoded
\* after the previous ObservePeak call and up to its own.
ReportedPeaks ==
    LET calls == CallsOf("ObservePeak")
    IN  \A k \in 1..Len(calls) :
            calls[k].num
                = MaxAbs(SubSeq(samples,
                                (IF k = 1 THEN 0 ELSE calls[k - 1].nsamples) + 1,
                                calls[k].nsamples))

\* C10 as claimed: the peak is the largest |s| of the samples decoded since
\* the countdown last reached zero, so it is 0 right after every report,
\* and every ObservePeak call is given the largest |s| since the one before.
C10_PeakSinceLastReport ==
    /\ a.peak = MaxAbs(Latest(Len(samples) - lastReport))
    /\ ReportedPeaks

\* C10 as amended: the peak is the largest |s| of the samples decoded since
\* the last report that called ObservePeak, or of all samples when there
\* is no ObservePeak; so it is 0 right after every report that calls it,
\* and every ObservePeak call is given the largest |s| since the one before.
C10_PeakSinceLastPeakReport ==
    /\ a.peak = MaxAbs(Latest(Len(samples)
                                - (IF a.ObservePeak THEN lastReport ELSE 0)))
    /\ ReportedPeaks

\* ObservePeak has been given a peak that a negative sample set, the peak
\* is 0 again, and the next sample is not yet decoded.
C10_Witness ==
    /\ Consistent /\ pc = "idle" /\ a.ObservePeak
    /\ reports >= 1 /\ lastReport = Len(samples) /\ a.peak = Int64(0)
    /\ \E k \in 1..Len(observed) :
          /\ observed[k].fn = "ObservePeak"
          /\ observed[k].num # Int64(0)
          /\ \E i \in 1..observed[k].nsamples :
                IsNeg(samples[i]) /\ observed[k].num = Neg(samples[i])

\* The value a word stands for: its bytes as an unsigned number in the
\* configured byte order, then as two's complement when signed and less
\* the bias 2^(WordSize-1) when unsigned.
Reverse(w) == [i \in 1..Len(w) |-> w[Len(w) + 1 - i]]

RawValue(word, x) ==
    LET le == IF x.LittleEndian THEN word ELSE Reverse(word)
    IN  [i \in 1..Limbs64 |-> IF i <= Len(le) THEN le[i] ELSE 0]

ReferenceSample(word, x) ==
    LET raw == RawValue(word, x)
    IN  IF x.Signed
        THEN IF word[IF x.LittleEndian THEN Len(word) ELSE 1] >= 128
             THEN Sub(raw, Bit(x.WordSize, Limbs64))
             ELSE raw
        ELSE Sub(raw, Bit(x.WordSize - 1, Limbs64))

\* C11: every decoded sample is the value its word stands for; a signed
\* word with its top bit set decodes to a negative sample.
C11_DecodingMatchesReference ==
    \A i \in 1..Len(samples) : samples[i] = ReferenceSample(words[i], a)

\* The type of a MIME type, and the text of its parameter key (the last,
\* if it is given twice), or <<>>.
TypeOf(mt) == TrimSpace(Split(mt, ";")[1])

RECURSIVE ParameterFrom(_, _, _, _)
ParameterFrom(pieces, i, key, found) ==
    IF i > Len(pieces) THEN found
    ELSE LET kv == Split(ToLower(TrimSpace(pieces[i])), "=")
         IN  ParameterFrom(pieces, i + 1, key,
                           IF Len(kv) = 2 /\ kv[1] = key
                           THEN <<kv[2]>> ELSE found)

Parameter(mt, key) == ParameterFrom(Split(mt, ";"), 2, key, <<>>)

\* What a MIME type says: its type, and its rate and channels when they
\* are given as positive integers, 0 otherwise.
Positive(mt, key) ==
    IF Parameter(mt, key) = <<>> THEN 0
    ELSE IF ParseInt(Parameter(mt, key)[1]) >= 1
    THEN ParseInt(Parameter(mt, key)[1])
    ELSE 0

Meaning ==
    [mt \in MIMETypes |->
        [type |-> TypeOf(mt),
         rate |-> Positive(mt, RateKey),
         channels |-> Positive(mt, ChannelsKey)]]

\* A step of UseMIMEType: the only steps from outside Write to outside
\* Write that return nothing from Write.
UseMIMETypeStep == pc = "idle" /\ pc' = "idle" /\ ret' = ret

\* C12: UseMIMEType succeeds, setting SampleRate and Channels as parsed
\* and WordSize, LittleEndian and Signed to 16, true, true, or fails,
\* changing nothing; it fails when the type is not audio/L16 and when the
\* rate or the channels is missing or not a positive integer; the decode
\* state and everything else is as before either way.
C12_UseMIMEType ==
    [][UseMIMETypeStep =>
        LET said == Meaning[mime'.mt]
        IN  /\ mime'.err = NoError =>
                   a' = [a EXCEPT !.SampleRate = said.rate,
                                  !.Channels = said.channels,
                                  !.WordSize = 16,
                                  !.LittleEndian = TRUE,
                                  !.Signed = TRUE]
            /\ mime'.err # NoError => a' = a
            /\ said.type # AudioL16 => mime'.err # NoError
            /\ said.rate = 0 => mime'.err # NoError
            /\ said.channels = 0 => mime'.err # NoError
            /\ UNCHANGED <<p, n, c, observed, frames, samples, words,
                           lastReport, reports, stream>>]_vars

\* The first successful Write has derived the constants: wordMax, zero in
\* a new Analyzer, is 2^(WordSize-1) from then on.
Derived == a.wordMax # Int64(0)

\* C14: once the constants are derived, reportPeriodSamples is
\* SampleRate*ObserveEvery/1s - 1 and the countdown is in
\* [0, reportPeriodSamples], also when reportPeriodSamples is 0.
C14_CountdownInRange ==
    Derived =>
        /\ a.nobserve = IntervalFrames - 1
        /\ a.countdown >= 0
        /\ a.countdown <= a.nobserve

\* C15: in reset mode (Window = ObserveEvery) there is never a buffer, and
\* the sum is the sum of the squares of the samples decoded since the
\* countdown last reached zero (all of them before that), so it is zero
\* right after every report, with or without observers.
C15_ResetModeSum ==
    a.Window = a.ObserveEvery =>
        /\ a.squares = NilSlice
        /\ Exact(a.sum) = SumOfSquares(Latest(Len(samples) - lastReport))

\* The circular-buffer algorithm on an Analyzer with the fields of x: the
\* constants derived as lines 237-244 derive them, with the buffer of
\* line 239 allocated whatever Window and ObserveEvery are.
WithBuffer(x) ==
    LET a0 == [NewAnalyzer(FieldsOf(x)) EXCEPT !.nwindow = WindowSamples(x)]
    IN  [Derive(a0) EXCEPT !.squares = MakeSlice(a0.nwindow)]

\* The run of that algorithm on all of bytes in a single Write.
CircularWrite(x, bytes) ==
    Finish(WriteCallOp([Start(FieldsOf(x)) EXCEPT !.a = WithBuffer(x)], bytes))

\* The reports of a run: the sum, the divisor and the frame of each
\* ObserveRMS call.
Reports(calls) ==
    LET rms == SelectSeq(calls, LAMBDA e : e.fn = "ObserveRMS")
    IN  [k \in 1..Len(rms) |->
            [sum |-> rms[k].num, n |-> rms[k].den, frame |-> rms[k].frame]]

\* C16: when Window = ObserveEvery, the reports made (sum and divisor, at
\* the same frames) are those the circular-buffer algorithm with capacity
\* windowSamples makes on the same input.
C16_ResetModeRefinesCircular ==
    (Consistent /\ a.Window = a.ObserveEvery /\ a.ObserveRMS
       /\ pc = "idle" /\ ret.err = NoError) =>
        Reports(observed) = Reports(CircularWrite(a, stream).observed)

\* C17: with a circular buffer (Window # ObserveEvery), once the constants
\* are derived and k samples are decoded: the capacity is windowSamples,
\* the buffer holds min(k, windowSamples) entries, the cursor is a valid
\* index once it has moved and is (k-1) mod windowSamples, and the buffer
\* holds the squares of the latest samples, sample j at index
\* (j-1) mod windowSamples, so that a write to a full buffer replaced the
\* oldest entry.
C17_CircularBuffer ==
    (Consistent /\ a.Window # a.ObserveEvery /\ Derived) =>
        LET k == Len(samples)
            W == Quot(a.Channels * a.SampleRate * a.Window, Second)
            entries == a.squares.elems
        IN  /\ ~a.squares.nil
            /\ a.squares.cap = W
            /\ Len(entries) = Min(k, W)
            /\ a.next # -1 => a.next >= 0 /\ a.next < Len(entries)
            /\ k = 0 => a.next = -1
            /\ k >= 1 =>
                  /\ a.next = (k - 1) % W
                  /\ \A j \in (k - Min(k, W) + 1)..k :
                        entries[((j - 1) % W) + 1] = Mul(samples[j], samples[j])

\* The test of line 233: Write takes the Analyzer to be unused, and
\* validates and derives.
FirstUse(x) == x.nwindow = 0

\* The derived constants and the mode.
DerivedValues(x) ==
    <<x.nwindow, x.nobserve, x.wordMax, x.squares.nil, x.squares.cap>>

\* C18: once the first Write has derived the constants, no step changes
\* them, and a later call of Write (a step from outside Write) neither
\* finds the Analyzer unused, which would validate and derive again, nor
\* changes the countdown, the cursor or the buffer.
C18_DerivedOnce ==
    [][Derived =>
         /\ DerivedValues(a') = DerivedValues(a)
         /\ pc = "idle" =>
               /\ ~FirstUse(a)
               /\ a'.countdown = a.countdown
               /\ a'.next = a.next
               /\ a'.squares = a.squares]_vars

\* C19: the square of every decoded sample fits an int64 (the product of
\* line 271 is the exact one), the sum is the exact sum of the squares it
\* holds, and so the sum and the peak are never negative.
C19_NoOverflow ==
    /\ \A i \in 1..Len(samples) :
          Exact(Mul(samples[i], samples[i]))
              = Mul(Exact(samples[i]), Exact(samples[i]))
    /\ ~IsNeg(a.sum)
    /\ ~IsNeg(a.peak)

=============================================================================
